---- MODULE Spec2Model ----
(***************************************************************************)
(* A model of the football event / tracking data loader:                   *)
(*   src/src/utils.py        matchPeriod_to_half, convert_HHMMSS_to_secs,  *)
(*                           extract_half_and_time_passed_in_half,         *)
(*                           _timestamp_helper                             *)
(*   src/src/data_loader.py  DataLoader.load_event_matches,                *)
(*                           DataLoader.load_tracking_data,                *)
(*                           DataLoader.get_tracking_from_events_data      *)
(*                                                                         *)
(* Python strings that the code inspects character by character (split,    *)
(* startswith, int) are sequences of one-character strings; strings that   *)
(* are only compared for equality (period codes, the side argument,        *)
(* exception types) are TLA+ strings.  An Optional value is a sequence of  *)
(* length 0 (None) or 1.  Seconds are whole numbers: the fractional part   *)
(* that float() would accept is not modelled.                              *)
(***************************************************************************)
EXTENDS Integers, Sequences, FiniteSets, TLC

VARIABLES
    op,         \* the public operation this call runs
    pc,         \* the position of the call: "call", a loop position, "done"
    args,       \* the arguments of the call (fields named as in the source)
    events_df,  \* DataLoader.events_df, the session's event table
    disk,       \* the data directory: per match path, the directory and files
    locals,     \* the local variables of get_tracking_from_events_data
    loads,      \* the match ids load_tracking_data was called with, in order
    history,    \* the loads of the earlier calls of the session, call by call
    ret,        \* the value returned to the caller: <<>> or <<value>>
    exc         \* the exception that reached the caller: <<>> or <<exception>>

vars == <<op, pc, args, events_df, disk, locals, loads, history, ret, exc>>

----------------------------------------------------------------------------
(* Python values                                                           *)

None == <<>>

Some(v) == <<v>>

Return(v) == [raised |-> FALSE, type |-> "", msg |-> "", value |-> <<v>>]

Raise(type, msg) == [raised |-> TRUE, type |-> type, msg |-> msg, value |-> <<>>]

Abs(x) == IF x < 0 THEN -x ELSE x

Range(s) == {s[i] : i \in 1..Len(s)}

----------------------------------------------------------------------------
(* Strings as sequences of characters                                      *)

DigitChars == <<"0", "1", "2", "3", "4", "5", "6", "7", "8", "9">>

DigitValue(c) == (CHOOSE i \in 1..10 : DigitChars[i] = c) - 1

IsDigits(s) == Len(s) > 0 /\ \A i \in 1..Len(s) : s[i] \in Range(DigitChars)

RECURSIVE IntAcc(_, _)
IntAcc(s, acc) ==
    IF s = <<>> THEN acc ELSE IntAcc(Tail(s), acc * 10 + DigitValue(Head(s)))

\* int(s) / float(s) on a string of the model's alphabet
PyInt(s) == IF IsDigits(s) THEN Return(IntAcc(s, 0))
            ELSE Raise("ValueError", "invalid literal")

RECURSIVE SplitAcc(_, _, _, _)
SplitAcc(s, sep, cur, acc) ==
    IF s = <<>> THEN Append(acc, cur)
    ELSE IF Head(s) = sep THEN SplitAcc(Tail(s), sep, <<>>, Append(acc, cur))
    ELSE SplitAcc(Tail(s), sep, Append(cur, Head(s)), acc)

\* str.split(sep)
Split(s, sep) == SplitAcc(s, sep, <<>>, <<>>)

\* str.startswith(prefix)
StartsWith(s, prefix) ==
    Len(prefix) <= Len(s) /\ SubSeq(s, 1, Len(prefix)) = prefix

----------------------------------------------------------------------------
(* src/src/utils.py                                                        *)

\* a variant whose lookup defaults to the first half: mapping.get(code, 1)
matchPeriod_to_half_default_first(matchPeriod) ==
    CASE matchPeriod = "1H" -> Some(1)
      [] matchPeriod = "2H" -> Some(2)
      [] matchPeriod = "1E" -> Some(3)
      [] matchPeriod = "2E" -> Some(4)
      [] matchPeriod = "P"  -> Some(5)
      [] OTHER -> Some(1)

matchPeriod_to_half(matchPeriod) ==
    CASE matchPeriod = "1H" -> Some(1)
      [] matchPeriod = "2H" -> Some(2)
      [] matchPeriod = "1E" -> Some(3)
      [] matchPeriod = "2E" -> Some(4)
      [] matchPeriod = "P"  -> Some(5)
      [] OTHER -> None

convert_HHMMSS_to_secs(HHMMSS) ==
    LET parts == Split(HHMMSS, ":")
        hh == PyInt(parts[1])
        mm == PyInt(parts[2])
        ss == PyInt(parts[3])
    IN  IF hh.raised THEN hh
        ELSE IF Len(parts) < 2 THEN Raise("IndexError", "list index out of range")
        ELSE IF mm.raised THEN mm
        ELSE IF Len(parts) < 3 THEN Raise("IndexError", "list index out of range")
        ELSE IF ss.raised THEN ss
        ELSE Return(hh.value[1] * 60 * 60 + mm.value[1] * 60 + ss.value[1])

\* a variant that knows the second-half offset only (no extra time)
MinuteOffsetRegulationOnly(half) ==
    IF half = Some(2) THEN 45 ELSE 0

MinuteOffset(half) ==
    IF half = Some(2) THEN 45
    ELSE IF half = Some(3) THEN 90
    ELSE IF half = Some(4) THEN 105
    ELSE 0

extract_half_and_time_passed_in_half(event) ==
    LET half == matchPeriod_to_half(event.matchPeriod)
        minute_offset == MinuteOffset(half)
        secs == convert_HHMMSS_to_secs(event.matchTimestamp)
    IN  IF secs.raised THEN secs
        ELSE Return(<<half, secs.value[1] - minute_offset * 60>>)

\* a variant that keeps the last occurrence of the minimum
IdxMinLast(s) ==
    CHOOSE i \in 1..Len(s) :
        /\ \A j \in 1..Len(s) : s[i] <= s[j]
        /\ \A j \in (i + 1)..Len(s) : s[j] > s[i]

\* Series.idxmin(): the position of the first occurrence of the minimum
IdxMin(s) ==
    CHOOSE i \in 1..Len(s) :
        /\ \A j \in 1..Len(s) : s[i] <= s[j]
        /\ \A j \in 1..(i - 1) : s[j] > s[i]

\* tracking[tracking["half"] == half]
HalfFilter(tracking, half) ==
    SelectSeq(tracking, LAMBDA row : row.half = half)

_timestamp_helper(half, time, tracking) ==
    LET half_tracking == HalfFilter(tracking, half)
        dist == [i \in 1..Len(half_tracking) |->
                    Abs(half_tracking[i].time_passed_in_half - time)]
    IN  IF half_tracking = <<>>
        THEN Raise("ValueError", "No tracking data for the specified half.")
        ELSE Return(half_tracking[IdxMin(dist)].time_passed_in_half)

----------------------------------------------------------------------------
(* src/configs/static.py: the static match id -> relative path table       *)

H_EURO2024 == <<"H", "_", "E", "U", "R", "O", "2", "0", "2", "4">>

Q_EURO2025 == <<"Q", "_", "E", "U", "R", "O", "2", "0", "2", "5">>

U21_EURO2025 == <<"U", "2", "1", "_", "E", "U", "R", "O", "2", "0", "2", "5">>

MATCH_ID_TO_PATH ==
    (1 :> (H_EURO2024 \o <<"/", "1">>)) @@
    (2 :> (H_EURO2024 \o <<"/", "2">>)) @@
    (3 :> (Q_EURO2025 \o <<"/", "3">>))

----------------------------------------------------------------------------
(* pandas / list helpers                                                   *)

\* the code points of the characters that occur in team names, ascending
CodePoints == <<"G", "S", "e", "r">>

Ord(c) == CHOOSE i \in 1..Len(CodePoints) : CodePoints[i] = c

RECURSIVE StrLess(_, _)
StrLess(a, b) ==
    IF b = <<>> THEN FALSE
    ELSE IF a = <<>> THEN TRUE
    ELSE IF Head(a) = Head(b) THEN StrLess(Tail(a), Tail(b))
    ELSE Ord(Head(a)) < Ord(Head(b))

\* sorted(collection of distinct strings)
RECURSIVE Sorted(_)
Sorted(S) ==
    IF S = {} THEN <<>>
    ELSE LET m == CHOOSE x \in S : \A y \in S : x = y \/ StrLess(x, y)
         IN  <<m>> \o Sorted(S \ {m})

\* Series.unique(): the distinct values in order of first occurrence
RECURSIVE UniqueAcc(_, _)
UniqueAcc(s, acc) ==
    IF s = <<>> THEN acc
    ELSE IF Head(s) \in Range(acc) THEN UniqueAcc(Tail(s), acc)
    ELSE UniqueAcc(Tail(s), Append(acc, Head(s)))

Unique(s) == UniqueAcc(s, <<>>)

Column(df, col) == [i \in 1..Len(df) |-> df[i][col]]

\* df[df[col].isin(values)]
IsIn(df, col, values) == SelectSeq(df, LAMBDA row : row[col] \in values)

\* seq[:n], Python slicing
SliceTo(s, n) ==
    IF n >= 0 THEN SubSeq(s, 1, IF n < Len(s) THEN n ELSE Len(s))
    ELSE SubSeq(s, 1, IF Len(s) + n > 0 THEN Len(s) + n ELSE 0)

\* the truth value of an Optional[str] argument: None and "" are falsy
Truthy(x) == x # None /\ x[1] # <<>>

----------------------------------------------------------------------------
(* src/src/data_loader.py: the match filter                                *)

get_competitions == <<H_EURO2024, Q_EURO2025, U21_EURO2025>>

CompetitionMatches(competition) ==
    {match_id \in DOMAIN MATCH_ID_TO_PATH :
        StartsWith(MATCH_ID_TO_PATH[match_id], competition)}

get_teams_by_competition(df, competition) ==
    Sorted(Range(Column(IsIn(df, "matchId", CompetitionMatches(competition)),
                        "teamName")))

get_all_teams(df) == Sorted(Range(Column(df, "teamName")))

\* lines 90-99: the competition filter
FilterCompetition(df, competition) ==
    IF ~Truthy(competition) THEN Return(df)
    ELSE IF competition[1] \notin Range(get_competitions)
    THEN Raise("ValueError", "Invalid competition")
    ELSE Return(IsIn(df, "matchId", CompetitionMatches(competition[1])))

\* a variant that keeps the resolved team's own events only
FilterTeamOwnEvents(all_events, df, competition, team) ==
    IF ~Truthy(team) THEN Return(df)
    ELSE LET available_teams ==
                 IF Truthy(competition)
                 THEN get_teams_by_competition(all_events, competition[1])
                 ELSE get_all_teams(all_events)
             matching_team ==
                 SelectSeq(available_teams, LAMBDA t : StartsWith(t, team[1]))
         IN  IF matching_team = <<>>
             THEN Raise("ValueError", "Team not found")
             ELSE Return(SelectSeq(df, LAMBDA row : row.teamName = matching_team[1]))

\* lines 101-110: the team filter, on the competition-filtered table
FilterTeam(all_events, df, competition, team) ==
    IF ~Truthy(team) THEN Return(df)
    ELSE LET available_teams ==
                 IF Truthy(competition)
                 THEN get_teams_by_competition(all_events, competition[1])
                 ELSE get_all_teams(all_events)
             matching_team ==
                 SelectSeq(available_teams, LAMBDA t : StartsWith(t, team[1]))
             team_matches ==
                 Range(Column(SelectSeq(df, LAMBDA row :
                                  row.teamName = matching_team[1]), "matchId"))
         IN  IF matching_team = <<>>
             THEN Raise("ValueError", "Team not found")
             ELSE Return(IsIn(df, "matchId", team_matches))

\* a variant that takes the first N match ids in ascending order
FilterMaxMatchesSorted(df, max_number_of_matches) ==
    IF max_number_of_matches = None THEN df
    ELSE LET ids == Range(Column(df, "matchId"))
             rank(m) == Cardinality({x \in ids : x < m})
         IN  IsIn(df, "matchId", {m \in ids : rank(m) < max_number_of_matches[1]})

\* lines 111-114: the limit on the number of matches
FilterMaxMatches(df, max_number_of_matches) ==
    IF max_number_of_matches = None THEN df
    ELSE LET unique_matches ==
                 SliceTo(Unique(Column(df, "matchId")), max_number_of_matches[1])
         IN  IsIn(df, "matchId", Range(unique_matches))

load_event_matches(df0, competition, team, max_number_of_matches) ==
    LET byCompetition == FilterCompetition(df0, competition)
        byTeam == FilterTeam(df0, byCompetition.value[1], competition, team)
    IN  IF byCompetition.raised THEN byCompetition
        ELSE IF byTeam.raised THEN byTeam
        ELSE Return(FilterMaxMatches(byTeam.value[1], max_number_of_matches))

----------------------------------------------------------------------------
(* src/src/data_loader.py: the tracking loader                             *)

\* a variant that validates the side argument before anything else
load_tracking_data_side_first(match_id, home_or_away, d) ==
    IF home_or_away \notin {"home", "away", "both"}
    THEN Raise("ValueError", "home_or_away must be 'home', 'away', or 'both'")
    ELSE IF match_id \notin DOMAIN MATCH_ID_TO_PATH
    THEN Raise("ValueError", "Match ID not found")
    ELSE LET match_path == MATCH_ID_TO_PATH[match_id]
         IN  IF ~d[match_path].exists
             THEN Raise("FileNotFoundError", "Match directory not found")
             ELSE IF d[match_path].home = None \/ d[match_path].away = None
             THEN Raise("FileNotFoundError", "Tracking file not found")
             ELSE IF home_or_away = "both"
             THEN Return(<<d[match_path].home[1], d[match_path].away[1]>>)
             ELSE Return(d[match_path][home_or_away][1])

\* disk[path] = [exists, home, away]: whether the match directory exists and
\* the content of home.csv / away.csv (None when the file is absent)
load_tracking_data(match_id, home_or_away, d) ==
    IF match_id \notin DOMAIN MATCH_ID_TO_PATH
    THEN Raise("ValueError", "Match ID not found")
    ELSE LET match_path == MATCH_ID_TO_PATH[match_id]
         IN  IF ~d[match_path].exists
             THEN Raise("FileNotFoundError", "Match directory not found")
             ELSE IF d[match_path].home = None
             THEN Raise("FileNotFoundError", "Tracking file not found")
             ELSE IF d[match_path].away = None
             THEN Raise("FileNotFoundError", "Tracking file not found")
             ELSE IF home_or_away = "both"
             THEN Return(<<d[match_path].home[1], d[match_path].away[1]>>)
             ELSE IF home_or_away \in {"home", "away"}
             THEN Return(d[match_path][home_or_away][1])
             ELSE Raise("ValueError", "home_or_away must be 'home', 'away', or 'both'")

----------------------------------------------------------------------------
(* src/src/data_loader.py: the event-to-tracking joiner                    *)

\* the classes `except Exception` catches: every exception the body raises
ExceptionClasses == {"ValueError", "IndexError", "KeyError", "FileNotFoundError"}

\* a handler narrowed to `except ValueError`
CatchesValueErrorOnly(type) == type = "ValueError"

\* line 233: except Exception
EventExceptCatches(type) == type \in ExceptionClasses

\* line 237: except Exception
MatchExceptCatches(type) == type \in ExceptionClasses

\* the numeric order a groupby("matchId") would iterate in
RECURSIVE SortedIds(_)
SortedIds(S) ==
    IF S = {} THEN <<>>
    ELSE LET m == CHOOSE x \in S : \A y \in S : x <= y
         IN  <<m>> \o SortedIds(S \ {m})

MatchOrderSorted(df_event) == SortedIds(Range(Column(df_event, "matchId")))

\* line 185: df_event['matchId'].unique()
MatchOrder(df_event) == Unique(Column(df_event, "matchId"))

\* a selection on the timestamp alone
FrameAtAnyHalf(tracking, half, closest_timestamp) ==
    SelectSeq(tracking, LAMBDA row : row.time_passed_in_half = closest_timestamp)

\* lines 209-212
HomeFrame(tracking, half, closest_timestamp) ==
    SelectSeq(tracking, LAMBDA row :
        row.half = half /\ row.time_passed_in_half = closest_timestamp)

\* lines 215-218
AwayFrame(tracking, half, closest_timestamp) ==
    SelectSeq(tracking, LAMBDA row :
        row.half = half /\ row.time_passed_in_half = closest_timestamp)

\* frame_copy['event_id'] = event_row['eventId']
Tag(frame, event_id) ==
    [i \in 1..Len(frame) |->
        [half |-> frame[i].half,
         time_passed_in_half |-> frame[i].time_passed_in_half,
         idx |-> frame[i].idx,
         event_id |-> event_id]]

\* pd.concat(frames, ignore_index=True)
RECURSIVE Concat(_)
Concat(frames) ==
    IF frames = <<>> THEN <<>> ELSE Head(frames) \o Concat(Tail(frames))

\* lines 198-231: the body of the per-event try
ProcessEvent(event_row, home_tracking, away_tracking) ==
    LET r == extract_half_and_time_passed_in_half(event_row)
        half == r.value[1][1]
        time_passed_in_half == r.value[1][2]
        closest == _timestamp_helper(half[1], time_passed_in_half, home_tracking)
        home_frame == HomeFrame(home_tracking, half[1], closest.value[1])
        away_frame == AwayFrame(away_tracking, half[1], closest.value[1])
    IN  IF r.raised THEN [kind |-> "raise", type |-> r.type, msg |-> r.msg]
        ELSE IF half = None THEN [kind |-> "skip"]
        ELSE IF closest.raised
        THEN [kind |-> "raise", type |-> closest.type, msg |-> closest.msg]
        ELSE IF home_frame = <<>> \/ away_frame = <<>> THEN [kind |-> "skip"]
        ELSE [kind |-> "append",
              home |-> Tag(home_frame, event_row.eventId),
              away |-> Tag(away_frame, event_row.eventId)]

NoLocals ==
    [todo |-> <<>>, match_id |-> 0, match_events |-> <<>>,
     home_tracking |-> <<>>, away_tracking |-> <<>>,
     all_home_tracking |-> <<>>, all_away_tracking |-> <<>>,
     warnings |-> <<>>]

\* lines 178-182: the empty check and the set-up of the loop over matches
JoinCall ==
    /\ op = "join" /\ pc = "call"
    /\ IF args.df_event = <<>>
       THEN /\ ret' = Some(<<<<>>, <<>>>>)
            /\ pc' = "done"
            /\ UNCHANGED locals
       ELSE /\ locals' = [NoLocals EXCEPT !.todo = MatchOrder(args.df_event)]
            /\ pc' = "for_match"
            /\ UNCHANGED ret
    /\ UNCHANGED <<op, args, events_df, disk, loads, exc, history>>

\* a variant of the load of the loop that reads a match only if no earlier
\* call of the session has read it
TrackingLoadUnlessSeen(log, match_id) ==
    IF \E k \in 1..Len(history) : \E i \in 1..Len(history[k]) :
           history[k][i] = match_id
    THEN log
    ELSE Append(log, match_id)

\* line 190: the loop calls load_tracking_data for the match, with no look
\* at what an earlier iteration or an earlier call has read
TrackingLoad(log, match_id) == Append(log, match_id)

\* lines 185-194, 237-239: the next match of the loop and its tracking load
JoinMatch ==
    /\ op = "join" /\ pc = "for_match" /\ locals.todo # <<>>
    /\ LET match_id == Head(locals.todo)
           match_events == SelectSeq(args.df_event,
                                     LAMBDA row : row.matchId = match_id)
           r == load_tracking_data(match_id, "both", disk)
       IN  /\ loads' = TrackingLoad(loads, match_id)
           /\ IF r.raised /\ MatchExceptCatches(r.type)
              THEN /\ locals' = [locals EXCEPT
                          !.todo = Tail(@),
                          !.warnings = Append(@, <<"match", match_id, r.msg>>)]
                   /\ pc' = "for_match"
                   /\ UNCHANGED exc
              ELSE IF r.raised
              THEN /\ exc' = Some([type |-> r.type, msg |-> r.msg])
                   /\ pc' = "done"
                   /\ UNCHANGED locals
              ELSE /\ locals' = [locals EXCEPT
                          !.todo = Tail(@),
                          !.match_id = match_id,
                          !.match_events = match_events,
                          !.home_tracking = r.value[1][1],
                          !.away_tracking = r.value[1][2]]
                   /\ pc' = "for_event"
                   /\ UNCHANGED exc
    /\ UNCHANGED <<op, args, events_df, disk, ret, history>>

\* lines 197-235: one event of the current match
JoinEvent ==
    /\ op = "join" /\ pc = "for_event"
    /\ LET event_row == Head(locals.match_events)
           rest == Tail(locals.match_events)
           r == ProcessEvent(event_row, locals.home_tracking, locals.away_tracking)
           after == IF rest = <<>> THEN "for_match" ELSE "for_event"
       IN  IF r.kind = "append"
           THEN /\ locals' = [locals EXCEPT
                       !.match_events = rest,
                       !.all_home_tracking = Append(@, r.home),
                       !.all_away_tracking = Append(@, r.away)]
                /\ pc' = after
                /\ UNCHANGED exc
           ELSE IF r.kind = "skip"
           THEN /\ locals' = [locals EXCEPT !.match_events = rest]
                /\ pc' = after
                /\ UNCHANGED exc
           ELSE IF EventExceptCatches(r.type)
           THEN /\ locals' = [locals EXCEPT
                       !.match_events = rest,
                       !.warnings = Append(@, <<"event", event_row.eventId, r.msg>>)]
                /\ pc' = after
                /\ UNCHANGED exc
           ELSE IF MatchExceptCatches(r.type)
           THEN /\ locals' = [locals EXCEPT
                       !.match_events = <<>>,
                       !.warnings = Append(@, <<"match", locals.match_id, r.msg>>)]
                /\ pc' = "for_match"
                /\ UNCHANGED exc
           ELSE /\ exc' = Some([type |-> r.type, msg |-> r.msg])
                /\ pc' = "done"
                /\ UNCHANGED locals
    /\ UNCHANGED <<op, args, events_df, disk, loads, ret, history>>

\* lines 241-248: the result
JoinReturn ==
    /\ op = "join" /\ pc = "for_match" /\ locals.todo = <<>>
    /\ ret' = IF locals.all_home_tracking = <<>> \/ locals.all_away_tracking = <<>>
              THEN Some(<<<<>>, <<>>>>)
              ELSE Some(<<Concat(locals.all_home_tracking),
                          Concat(locals.all_away_tracking)>>)
    /\ pc' = "done"
    /\ UNCHANGED <<op, args, events_df, disk, locals, loads, exc, history>>

\* the number of calls of the joiner in a session
MaxCalls == 2

\* lines 162-182: the caller calls the method again on the same events.  The
\* accumulators and the tracking tables are locals of the call, and the
\* DataLoader keeps no tracking table in a field, so the call starts as the
\* first one did; the loads of the finished call go to the history.
JoinAgain ==
    /\ op = "join" /\ pc = "done"
    /\ Len(history) + 1 < MaxCalls
    /\ history' = Append(history, loads)
    /\ loads' = <<>>
    /\ locals' = NoLocals
    /\ ret' = None /\ exc' = None
    /\ pc' = "call"
    /\ UNCHANGED <<op, args, events_df, disk>>

----------------------------------------------------------------------------
(* The single-step public operations                                       *)

Finish(r) ==
    /\ ret' = r.value
    /\ exc' = IF r.raised THEN Some([type |-> r.type, msg |-> r.msg]) ELSE None
    /\ pc' = "done"

\* utils.extract_half_and_time_passed_in_half(event)
Align ==
    /\ op = "align" /\ pc = "call"
    /\ Finish(extract_half_and_time_passed_in_half(args.event))
    /\ UNCHANGED <<op, args, events_df, disk, locals, loads, history>>

\* utils._timestamp_helper(half, time, tracking)
Nearest ==
    /\ op = "nearest" /\ pc = "call"
    /\ Finish(_timestamp_helper(args.half, args.time, args.tracking))
    /\ UNCHANGED <<op, args, events_df, disk, locals, loads, history>>

\* DataLoader.load_tracking_data(match_id, home_or_away)
Load ==
    /\ op = "load" /\ pc = "call"
    /\ Finish(load_tracking_data(args.match_id, args.home_or_away, disk))
    /\ loads' = Append(loads, args.match_id)
    /\ UNCHANGED <<op, args, events_df, disk, locals, history>>

\* DataLoader.load_event_matches(competition, team, max_number_of_matches)
Filter ==
    /\ op = "filter" /\ pc = "call"
    /\ Finish(load_event_matches(events_df, args.competition, args.team,
                                 args.max_number_of_matches))
    /\ UNCHANGED <<op, args, events_df, disk, locals, loads, history>>

----------------------------------------------------------------------------
(* Bounds and the inputs drawn from them                                   *)

MaxHours == 2
MaxRows == 3
MaxTime == 3
MaxEvents == 3
MaxLimit == 2
JoinOneMaxEvents == 2
JoinOneMaxRows == 2
SessionMaxEvents == 3

SeqsUpTo(S, n) == UNION {[1..k -> S] : k \in 0..n}

\* a tracking table read from a csv: RangeIndex labels 0, 1, ...
MkTable(keys) ==
    [i \in 1..Len(keys) |->
        [half |-> keys[i][1], time_passed_in_half |-> keys[i][2], idx |-> i - 1]]

Tables(halves, times, n) == {MkTable(k) : k \in SeqsUpTo(halves \X times, n)}

Two(n) == <<DigitChars[(n \div 10) + 1], DigitChars[(n % 10) + 1]>>

FormatHMS(h, m, s) == Two(h) \o <<":">> \o Two(m) \o <<":">> \o Two(s)

Periods == {"1H", "2H", "1E", "2E", "P", "1ET", "PEN", ""}

Minutes == {0, 30, 45, 59}

Seconds == {0, 1, 59}

MalformedTimestamps ==
    { <<>>,
      <<"0", "0", ":", "0", "1">>,
      <<"0", "x", ":", "0", "0", ":", "0", "0">> }

AlignTimestamps ==
    {FormatHMS(h, m, s) : h \in 0..MaxHours, m \in Minutes, s \in Seconds}
        \cup MalformedTimestamps

Paths == Range(MATCH_ID_TO_PATH)

\* a match id the static table lacks
UnknownMatchId == Cardinality(DOMAIN MATCH_ID_TO_PATH) + 1

HomeCsv == MkTable(<< <<1, 0>>, <<1, 2>>, <<2, 0>> >>)

AwayCsv == MkTable(<< <<1, 2>>, <<1, 0>>, <<2, 0>> >>)

HomeSecondHalfOnly == MkTable(<< <<2, 0>> >>)

NoDir == [exists |-> FALSE, home |-> None, away |-> None]

Dir(home, away) == [exists |-> TRUE, home |-> home, away |-> away]

LoadDirStates ==
    {NoDir} \cup {Dir(h, a) : h \in {None, Some(HomeCsv)}, a \in {None, Some(AwayCsv)}}

Sides == {"home", "away", "both", "left", ""}

Bogus == <<"B", "o", "g", "u", "s">>

TeamNames == { <<"G", "e">>, <<"G", "r">>, <<"S">> }

TeamArgs ==
    {None, Some(<<>>), Some(<<"G">>), Some(<<"G", "r">>), Some(<<"X">>)}

CompetitionArgs ==
    {None, Some(<<>>), Some(H_EURO2024), Some(Q_EURO2025), Some(U21_EURO2025),
     Some(Bogus)}

LimitArgs == {None} \cup {Some(n) : n \in -1..MaxLimit}

EventTables(rows, n) ==
    {[i \in 1..Len(t) |-> t[i] @@ [eventId |-> 100 + i]] : t \in SeqsUpTo(rows, n)}

FilterRows ==
    {[matchId |-> m, teamName |-> t] : m \in DOMAIN MATCH_ID_TO_PATH, t \in TeamNames}

GoodTimestamp == FormatHMS(0, 0, 1)

BadTimestamp == <<"0", "0", ":", "0", "1">>

JoinRows ==
    {[matchId |-> m, matchPeriod |-> p, matchTimestamp |-> ts] :
        m \in {1, 2, UnknownMatchId}, p \in {"1H", "XX"},
        ts \in {GoodTimestamp, BadTimestamp}}

\* the states of the directories of match 1 and of match 2
JoinDirStates1 ==
    {Dir(Some(HomeCsv), Some(AwayCsv)),
     Dir(Some(HomeSecondHalfOnly), Some(AwayCsv)),
     NoDir}

JoinDirStates2 ==
    {Dir(Some(HomeCsv), Some(AwayCsv)), Dir(None, Some(AwayCsv))}

JoinOneRows ==
    {[matchId |-> 1, matchPeriod |-> p, matchTimestamp |-> ts] :
        p \in {"1H", "2H", "XX"}, ts \in {GoodTimestamp, BadTimestamp}}

JoinOneKeys == SeqsUpTo({1, 2} \X {0, 2}, JoinOneMaxRows)

Reverse(s) == [i \in 1..Len(s) |-> s[Len(s) + 1 - i]]

\* the away grid of a match, relative to its home grid: the same rows, the
\* same rows in another order, a row missing, a row twice, another grid
AwayKeys(home) ==
    {home, Reverse(home), [i \in 1..Len(home) |-> <<home[i][1], home[i][2] + 1>>]}
        \cup (IF home = <<>> THEN {} ELSE {Tail(home), Append(home, home[1])})

JoinOneDirStates ==
    {NoDir} \cup UNION {{Dir(Some(MkTable(h)), Some(MkTable(a))) : a \in AwayKeys(h)} :
                           h \in JoinOneKeys}

\* the events of a session that calls the joiner more than once: matches
\* with and without tracking data, events that are aligned and events that
\* are skipped
SessionRows == {r \in JoinRows : r.matchTimestamp = GoodTimestamp}

SessionDirStates == {Dir(Some(HomeCsv), Some(AwayCsv)), NoDir}

----------------------------------------------------------------------------
(* Specifications                                                          *)

Idle ==
    /\ pc = "call" /\ locals = NoLocals /\ loads = <<>> /\ history = <<>>
    /\ ret = None /\ exc = None

DefaultDisk == [p \in Paths |-> Dir(Some(HomeCsv), Some(AwayCsv))]

InitAlign ==
    /\ op = "align" /\ Idle
    /\ events_df = <<>> /\ disk = DefaultDisk
    /\ \E p \in Periods, ts \in AlignTimestamps :
           args = [event |-> [matchPeriod |-> p, matchTimestamp |-> ts]]

InitNearest ==
    /\ op = "nearest" /\ Idle
    /\ events_df = <<>> /\ disk = DefaultDisk
    /\ \E half \in 1..3, time \in -1..(MaxTime + 1),
          tracking \in Tables({1, 2}, 0..MaxTime, MaxRows) :
           args = [half |-> half, time |-> time, tracking |-> tracking]

InitLoad ==
    /\ op = "load" /\ Idle
    /\ events_df = <<>>
    /\ disk \in [Paths -> LoadDirStates]
    /\ \E match_id \in DOMAIN MATCH_ID_TO_PATH \cup {UnknownMatchId},
          home_or_away \in Sides :
           args = [match_id |-> match_id, home_or_away |-> home_or_away]

InitFilter ==
    /\ op = "filter" /\ Idle
    /\ events_df \in EventTables(FilterRows, MaxEvents) \ {<<>>}
    /\ disk = DefaultDisk
    /\ \E c \in CompetitionArgs, t \in TeamArgs, n \in LimitArgs :
           args = [competition |-> c, team |-> t, max_number_of_matches |-> n]

InitJoin ==
    /\ op = "join" /\ Idle
    /\ events_df = <<>>
    /\ \E d1 \in JoinDirStates1, d2 \in JoinDirStates2 :
           disk = [p \in Paths |->
                      IF p = MATCH_ID_TO_PATH[1] THEN d1
                      ELSE IF p = MATCH_ID_TO_PATH[2] THEN d2
                      ELSE Dir(Some(HomeCsv), Some(AwayCsv))]
    /\ \E df_event \in EventTables(JoinRows, MaxEvents) :
           args = [df_event |-> df_event]

InitJoinOne ==
    /\ op = "join" /\ Idle
    /\ events_df = <<>>
    /\ \E d1 \in JoinOneDirStates :
           disk = [p \in Paths |->
                      IF p = MATCH_ID_TO_PATH[1] THEN d1
                      ELSE Dir(Some(HomeCsv), Some(AwayCsv))]
    /\ \E df_event \in EventTables(JoinOneRows, JoinOneMaxEvents) :
           args = [df_event |-> df_event]

InitSession ==
    /\ op = "join" /\ Idle
    /\ events_df = <<>>
    /\ \E d1 \in SessionDirStates :
           disk = [p \in Paths |->
                      IF p = MATCH_ID_TO_PATH[1] THEN d1
                      ELSE Dir(Some(HomeCsv), Some(AwayCsv))]
    /\ \E df_event \in EventTables(SessionRows, SessionMaxEvents) :
           args = [df_event |-> df_event]

NextJoin == JoinCall \/ JoinMatch \/ JoinEvent \/ JoinReturn

SpecAlign == InitAlign /\ [][Align]_vars

SpecNearest == InitNearest /\ [][Nearest]_vars

SpecLoad == InitLoad /\ [][Load]_vars

SpecFilter == InitFilter /\ [][Filter]_vars

SpecJoin == InitJoin /\ [][NextJoin]_vars

SpecJoinOne == InitJoinOne /\ [][NextJoin]_vars

NextSession == NextJoin \/ JoinAgain

SpecSession == InitSession /\ [][NextSession]_vars

Init == InitAlign \/ InitNearest \/ InitLoad \/ InitFilter \/ InitJoin

Next == Align \/ Nearest \/ Load \/ Filter \/ NextSession

Spec == Init /\ [][Next]_vars

----------------------------------------------------------------------------
(* The error taxonomy of the specification, as the code raises it          *)

InvalidCompetitionError == [type |-> "ValueError", msg |-> "Invalid competition"]

TeamNotFoundError == [type |-> "ValueError", msg |-> "Team not found"]

UnknownMatchError == [type |-> "ValueError", msg |-> "Match ID not found"]

MissingDataErrors ==
    {[type |-> "FileNotFoundError", msg |-> "Match directory not found"],
     [type |-> "FileNotFoundError", msg |-> "Tracking file not found"]}

InvalidSideError ==
    [type |-> "ValueError", msg |-> "home_or_away must be 'home', 'away', or 'both'"]

EmptyHalfError ==
    [type |-> "ValueError", msg |-> "No tracking data for the specified half."]

ValidPeriodHalf ==
    ("1H" :> 1) @@ ("2H" :> 2) @@ ("1E" :> 3) @@ ("2E" :> 4) @@ ("P" :> 5)

HalfOffsetSeconds == <<0, 2700, 5400, 6300, 0>>

----------------------------------------------------------------------------
(* Time Aligner                                                            *)

C8_NearestFrame ==
    /\ _timestamp_helper(1, 22, MkTable(<< <<1, 10>>, <<1, 20>>, <<1, 35>> >>))
           = Return(20)
    /\ (op = "nearest" /\ pc = "done") =>
        LET tracking == args.tracking
            rows == {i \in 1..Len(tracking) : tracking[i].half = args.half}
            d(i) == Abs(tracking[i].time_passed_in_half - args.time)
        IN  IF rows = {}
            THEN ret = None /\ exc = Some(EmptyHalfError)
            ELSE /\ exc = None
                 /\ \E i \in rows :
                        /\ ret = Some(tracking[i].time_passed_in_half)
                        /\ \A j \in rows : d(i) <= d(j)
                        /\ \A j \in rows : j < i => d(j) > d(i)

\* two rows of the half tie, the later one has the smaller time, and a row
\* of the other half lies exactly on the query: the first tied row is returned
C8_Witness ==
    /\ op = "nearest" /\ pc = "done"
    /\ args.half = 1 /\ args.time = 2
    /\ args.tracking = MkTable(<< <<2, 2>>, <<1, 3>>, <<1, 1>> >>)
    /\ ret = Some(3)

----------------------------------------------------------------------------
(* Tracking Loader                                                         *)

ValidSides == {"home", "away", "both"}

LoadDirOk(match_id) ==
    /\ disk[MATCH_ID_TO_PATH[match_id]].exists
    /\ disk[MATCH_ID_TO_PATH[match_id]].home # None
    /\ disk[MATCH_ID_TO_PATH[match_id]].away # None

\* C7 as stated: an invalid side fails with InvalidSideError whatever the
\* match id and the files on disk; (with a valid side) an unknown match id
\* fails with UnknownMatchError and a known match id whose directory or
\* requested file is missing fails with MissingDataError; a failing call
\* returns no table.
C7_AsStated ==
    (op = "load" /\ pc = "done") =>
        LET known == args.match_id \in DOMAIN MATCH_ID_TO_PATH
            d == disk[MATCH_ID_TO_PATH[args.match_id]]
            missing ==
                \/ ~d.exists
                \/ args.home_or_away \in {"home", "both"} /\ d.home = None
                \/ args.home_or_away \in {"away", "both"} /\ d.away = None
        IN  /\ args.home_or_away \notin ValidSides =>
                exc = Some(InvalidSideError)
            /\ args.home_or_away \in ValidSides /\ ~known =>
                exc = Some(UnknownMatchError)
            /\ args.home_or_away \in ValidSides /\ known /\ missing =>
                exc # None /\ exc[1] \in MissingDataErrors
            /\ exc # None => ret = None

\* C7 (amended): the checks run in the order match id, directory, files,
\* side.  An unknown match id fails with UnknownMatchError whatever the side;
\* a known match id whose directory, home.csv or away.csv is missing fails
\* with MissingDataError whatever the side; an invalid side fails with
\* InvalidSideError when the match is known and its directory and both files
\* exist; a failing call returns no table.
C7_LoadErrors ==
    (op = "load" /\ pc = "done") =>
        LET known == args.match_id \in DOMAIN MATCH_ID_TO_PATH
        IN  /\ ~known => exc = Some(UnknownMatchError)
            /\ known /\ ~LoadDirOk(args.match_id) =>
                exc # None /\ exc[1] \in MissingDataErrors
            /\ known /\ LoadDirOk(args.match_id)
                     /\ args.home_or_away \notin ValidSides =>
                exc = Some(InvalidSideError)
            /\ known /\ LoadDirOk(args.match_id)
                     /\ args.home_or_away \in ValidSides =>
                exc = None /\ ret # None
            /\ exc # None => ret = None

\* an invalid side together with an unknown match id: UnknownMatchError
C7_Witness ==
    /\ op = "load" /\ pc = "done"
    /\ args.home_or_away = "left"
    /\ args.match_id = UnknownMatchId
    /\ exc = Some(UnknownMatchError)
    /\ ret = None

----------------------------------------------------------------------------
(* Match Filter                                                            *)

KnownCompetitions == {H_EURO2024, Q_EURO2025, U21_EURO2025}

\* the events whose match id maps to a path under the competition (all the
\* events when no competition is given)
InCompetition(df, competition) ==
    IF competition = None THEN df
    ELSE SelectSeq(df, LAMBDA row :
             /\ row.matchId \in DOMAIN MATCH_ID_TO_PATH
             /\ StartsWith(MATCH_ID_TO_PATH[row.matchId], competition[1]))

TeamsOf(df) == {df[i].teamName : i \in 1..Len(df)}

MatchIdsOf(df) == {df[i].matchId : i \in 1..Len(df)}

\* the first name, in sorted order, that starts with the prefix
ResolvedTeam(df, prefix) ==
    CHOOSE t \in TeamsOf(df) :
        /\ StartsWith(t, prefix)
        /\ \A u \in TeamsOf(df) : StartsWith(u, prefix) => u = t \/ StrLess(t, u)

\* all events of the matches in which the team has an event
EventsOfMatchesOf(df, team_name) ==
    SelectSeq(df, LAMBDA row :
        \E i \in 1..Len(df) :
            df[i].teamName = team_name /\ df[i].matchId = row.matchId)

TeamFilterCall ==
    /\ op = "filter" /\ pc = "done"
    /\ args.competition = None \/ args.competition[1] \in KnownCompetitions
    /\ args.max_number_of_matches = None
    /\ args.team # None

TeamFilterOutcome ==
    LET df == InCompetition(events_df, args.competition)
        prefix == args.team[1]
    IN  IF \A t \in TeamsOf(df) : ~StartsWith(t, prefix)
        THEN exc = Some(TeamNotFoundError) /\ ret = None
        ELSE exc = None
             /\ ret = Some(EventsOfMatchesOf(df, ResolvedTeam(df, prefix)))

\* C4 as stated: for every team string, the team is resolved to the first
\* name of the (competition-scoped or global) team list that starts with the
\* string, and the result is exactly the competition-filtered events of the
\* matches in which that team has an event; no such name: TeamNotFoundError.
C4_AsStated == TeamFilterCall => TeamFilterOutcome

\* C4 (amended): the same for every non-empty team string; an empty team
\* string is treated as no team given and applies no team filter.
C4_TeamFilter ==
    TeamFilterCall =>
        IF args.team[1] # <<>> THEN TeamFilterOutcome
        ELSE exc = None /\ ret = Some(InCompetition(events_df, args.competition))

\* "G" resolves to "Ge" although "Gr" plays too; the opponent's event in the
\* match of "Ge" is kept and the match of "Gr" is dropped
C4_Witness ==
    /\ TeamFilterCall
    /\ args.team = Some(<<"G">>)
    /\ args.competition = Some(H_EURO2024)
    /\ Len(events_df) = 3
    /\ events_df[1].matchId = 2 /\ events_df[1].teamName = <<"G", "r">>
    /\ events_df[2].matchId = 1 /\ events_df[2].teamName = <<"S">>
    /\ events_df[3].matchId = 1 /\ events_df[3].teamName = <<"G", "e">>
    /\ ret = Some(<<events_df[2], events_df[3]>>)

\* C5: with max_matches = N >= 0 the result is exactly the events, in their
\* original relative order, of the table left by the competition and team
\* filters whose match id is among the first N distinct match ids in order of
\* first occurrence (not in sorted order); at most N distinct match ids.
C5_MaxMatches ==
    (/\ op = "filter" /\ pc = "done" /\ exc = None
     /\ args.max_number_of_matches # None
     /\ args.max_number_of_matches[1] >= 0) =>
        LET N == args.max_number_of_matches[1]
            df == load_event_matches(events_df, args.competition, args.team,
                                     None).value[1]
            FirstPos(m) == CHOOSE i \in 1..Len(df) :
                               /\ df[i].matchId = m
                               /\ \A j \in 1..(i - 1) : df[j].matchId # m
            firstN == {m \in MatchIdsOf(df) :
                          Cardinality({x \in MatchIdsOf(df) :
                                          FirstPos(x) < FirstPos(m)}) < N}
        IN  /\ ret = Some(SelectSeq(df, LAMBDA row : row.matchId \in firstN))
            /\ Cardinality(MatchIdsOf(ret[1])) <= N

\* N = 1 on events of matches 2, 1, 2: both events of match 2 are kept
C5_Witness ==
    /\ op = "filter" /\ pc = "done"
    /\ args.max_number_of_matches = Some(1)
    /\ args.team = None /\ args.competition = None
    /\ Len(events_df) = 3
    /\ events_df[1].matchId = 2 /\ events_df[2].matchId = 1
    /\ events_df[3].matchId = 2
    /\ ret = Some(<<events_df[1], events_df[3]>>)

\* C6: a competition value that is not one of the three known competitions
\* fails with InvalidCompetitionError and returns no events, whatever the
\* team and max_matches; with a known competition only events whose match id
\* maps to a path starting with the competition name are returned.
C6_AsStated ==
    (op = "filter" /\ pc = "done" /\ args.competition # None) =>
        IF args.competition[1] \notin KnownCompetitions
        THEN exc = Some(InvalidCompetitionError) /\ ret = None
        ELSE ret # None =>
                 \A i \in 1..Len(ret[1]) :
                     /\ ret[1][i].matchId \in DOMAIN MATCH_ID_TO_PATH
                     /\ StartsWith(MATCH_ID_TO_PATH[ret[1][i].matchId],
                                   args.competition[1])

----------------------------------------------------------------------------
(* Event-to-Tracking Joiner                                                *)

JoinDone == op = "join" /\ pc = "done"

HomeOut == ret[1][1]

AwayOut == ret[1][2]

RowsOf(out, event_id) == SelectSeq(out, LAMBDA row : row.event_id = event_id)

IdsOf(out) == {out[i].event_id : i \in 1..Len(out)}

Loadable(match_id) == match_id \in DOMAIN MATCH_ID_TO_PATH /\ LoadDirOk(match_id)

\* what the event gets from the tracking tables of its own match, whatever
\* else the batch holds
Alone(e) ==
    IF Loadable(e.matchId)
    THEN ProcessEvent(e, disk[MATCH_ID_TO_PATH[e.matchId]].home[1],
                         disk[MATCH_ID_TO_PATH[e.matchId]].away[1])
    ELSE [kind |-> "unloaded"]

\* Alone, for every event of the batch
AloneAll == [i \in 1..Len(args.df_event) |-> Alone(args.df_event[i])]

\* the event's rows in the two outputs are the frames `alone` names
HasItsFrames(e, alone) ==
    /\ RowsOf(HomeOut, e.eventId) = IF alone.kind = "append" THEN alone.home ELSE <<>>
    /\ RowsOf(AwayOut, e.eventId) = IF alone.kind = "append" THEN alone.away ELSE <<>>

C2_FailuresSkipped ==
    JoinDone =>
        LET df == args.df_event
            alone == AloneAll
            failedMatches == {m \in MatchIdsOf(df) : ~Loadable(m)}
            failedEvents == {i \in 1..Len(df) : alone[i].kind = "raise"}
            failed == failedEvents \cup
                          {i \in 1..Len(df) : df[i].matchId \in failedMatches}
        IN  /\ exc = None /\ ret # None
            /\ HomeOut = Concat(locals.all_home_tracking)
            /\ AwayOut = Concat(locals.all_away_tracking)
            /\ Len(locals.warnings)
                   = Cardinality(failedMatches) + Cardinality(failedEvents)
            /\ \A j \in 1..Len(df) :
                   failed \ {j} # {} => HasItsFrames(df[j], alone[j])

\* an unknown match, then in match 1 an event with a malformed timestamp
\* followed by a good event: the good event is in the result, two warnings
C2_Witness ==
    /\ JoinDone /\ ret # None
    /\ Len(args.df_event) = 3
    /\ args.df_event[1].matchId = UnknownMatchId
    /\ args.df_event[2].matchId = 1
    /\ args.df_event[2].matchPeriod = "1H"
    /\ args.df_event[2].matchTimestamp = BadTimestamp
    /\ args.df_event[3].matchId = 1
    /\ IdsOf(HomeOut) = {103} /\ IdsOf(AwayOut) = {103}
    /\ Len(locals.warnings) = 2

Keys(tracking) ==
    {<<tracking[i].half, tracking[i].time_passed_in_half>> : i \in 1..Len(tracking)}

\* both tables hold one row per (half, time_passed_in_half) key, same keys
AlignedGrids(d) ==
    /\ d.exists /\ d.home # None /\ d.away # None
    /\ Cardinality(Keys(d.home[1])) = Len(d.home[1])
    /\ Cardinality(Keys(d.away[1])) = Len(d.away[1])
    /\ Keys(d.home[1]) = Keys(d.away[1])

\* C3: for a single match with aligned home/away grids and events with
\* distinct ids, every event id of the home output is on exactly one row of
\* the home output and on exactly one row of the away output, and the two
\* rows carry the same half and the same time_passed_in_half.
C3_AlignedRoundTrip ==
    (JoinDone /\ ret # None /\ AlignedGrids(disk[MATCH_ID_TO_PATH[1]])) =>
        \A id \in IdsOf(HomeOut) :
            /\ Len(RowsOf(HomeOut, id)) = 1
            /\ Len(RowsOf(AwayOut, id)) = 1
            /\ RowsOf(AwayOut, id)[1].half = RowsOf(HomeOut, id)[1].half
            /\ RowsOf(AwayOut, id)[1].time_passed_in_half
                   = RowsOf(HomeOut, id)[1].time_passed_in_half

\* the same timestamp exists in both halves, the away rows are in another
\* order, and a first-half and a second-half event are both joined
C3_Witness ==
    /\ JoinDone /\ ret # None
    /\ AlignedGrids(disk[MATCH_ID_TO_PATH[1]])
    /\ disk[MATCH_ID_TO_PATH[1]].home[1] = MkTable(<< <<1, 0>>, <<2, 0>> >>)
    /\ disk[MATCH_ID_TO_PATH[1]].away[1] = MkTable(<< <<2, 0>>, <<1, 0>> >>)
    /\ Len(HomeOut) = 2 /\ Len(AwayOut) = 2
    /\ HomeOut[1].half = 1 /\ HomeOut[2].half = 2

RECURSIVE Collapse(_)
Collapse(s) ==
    IF Len(s) < 2 THEN s
    ELSE IF s[1] = s[2] THEN Collapse(Tail(s))
    ELSE <<s[1]>> \o Collapse(Tail(s))

EventIds(out) == [i \in 1..Len(out) |-> out[i].event_id]

\* C10: on each side the rows are in accumulation order: matches in the order
\* in which their id first occurs in the input, events of a match in input
\* order, also when the events of different matches are interleaved; the
\* home and the away output list the event ids in the same order.
C10_AccumulationOrder ==
    (JoinDone /\ ret # None) =>
        LET df == args.df_event
            Pos(id) == CHOOSE i \in 1..Len(df) : df[i].eventId = id
            FirstPos(m) == CHOOSE i \in 1..Len(df) :
                               /\ df[i].matchId = m
                               /\ \A j \in 1..(i - 1) : df[j].matchId # m
            NotAfter(a, b) ==
                \/ FirstPos(df[Pos(a)].matchId) < FirstPos(df[Pos(b)].matchId)
                \/ df[Pos(a)].matchId = df[Pos(b)].matchId /\ Pos(a) <= Pos(b)
            Ordered(out) ==
                \A i, j \in 1..Len(out) :
                    i < j => NotAfter(out[i].event_id, out[j].event_id)
        IN  /\ Ordered(HomeOut) /\ Ordered(AwayOut)
            /\ Collapse(EventIds(HomeOut)) = Collapse(EventIds(AwayOut))

\* events of match 2, match 1, match 2: both events of match 2 come first
C10_Witness ==
    /\ JoinDone /\ ret # None
    /\ Len(args.df_event) = 3
    /\ args.df_event[1].matchId = 2
    /\ args.df_event[2].matchId = 1
    /\ args.df_event[3].matchId = 2
    /\ EventIds(HomeOut) = <<101, 103, 102>>
    /\ EventIds(AwayOut) = <<101, 103, 102>>

----------------------------------------------------------------------------
(* C11: the tracking loads of a call                                       *)

InputMatchIds == {args.df_event[i].matchId : i \in 1..Len(args.df_event)}

MatchOfEvent(event_id) ==
    (CHOOSE row \in {args.df_event[i] : i \in 1..Len(args.df_event)} :
         row.eventId = event_id).matchId

\* no match id is loaded twice, and none that the input does not hold
AtMostOncePerMatch(log) ==
    /\ \A i, j \in 1..Len(log) : log[i] = log[j] => i = j
    /\ \A i \in 1..Len(log) : log[i] \in InputMatchIds

\* every match id of the input is loaded
EveryMatchLoaded(log) == InputMatchIds \subseteq {log[i] : i \in 1..Len(log)}

\* C11: during one call of the joiner, load_tracking_data is called exactly
\* once for each distinct match id of the input: never twice for a match with
\* several events, never for a match id the input does not hold, and not at
\* all for an empty input.  The events being aligned are those of the match
\* loaded last, and every frame gathered belongs to an event of a match
\* already loaded.  Nothing loaded is kept: a further call on the same events
\* loads every match again, in the same order.
C11_LoadOncePerMatchPerCall ==
    op = "join" =>
        /\ AtMostOncePerMatch(loads)
        /\ (args.df_event = <<>> => loads = <<>>)
        /\ (pc = "for_event" =>
               /\ loads # <<>>
               /\ locals.match_events # <<>>
               /\ \A i \in 1..Len(locals.match_events) :
                      locals.match_events[i].matchId = loads[Len(loads)])
        /\ \A side \in {locals.all_home_tracking, locals.all_away_tracking} :
               \A id \in IdsOf(Concat(side)) :
                   \E i \in 1..Len(loads) : loads[i] = MatchOfEvent(id)
        /\ (pc = "done" => EveryMatchLoaded(loads))
        /\ \A k \in 1..Len(history) :
               AtMostOncePerMatch(history[k]) /\ EveryMatchLoaded(history[k])
        /\ (pc = "done" /\ history # <<>> => loads = history[Len(history)])

\* the second call on three events, two of match 1 and one of match 2, has
\* returned frames after loading match 1 and match 2 once each, as the first
\* call did
C11_Witness ==
    /\ JoinDone /\ ret # None /\ HomeOut # <<>>
    /\ Len(args.df_event) = 3
    /\ args.df_event[1].matchId = 1
    /\ args.df_event[2].matchId = 2
    /\ args.df_event[3].matchId = 1
    /\ history = <<<<1, 2>>>>
    /\ loads = <<1, 2>>

====
